---- MODULE Spec2Model ----
(***************************************************************************)
(* Verification model of ThesisAdvisorAgent: the debate orchestrator       *)
(* (execute_debate_process), the debate participant                        *)
(* (ContextAwareDebateAgent.argue), the host-side tool dispatcher          *)
(* (run_tool_and_get_result) and the search-tool wrappers.                 *)
(***************************************************************************)
EXTENDS Integers, Sequences, FiniteSets, TLC

VARIABLES
    pc,                 \* position of execute_debate_process / argue / judge
    k,                  \* index 1..10 of the participant turn in the straight-line code
    exchanges,          \* engine exchanges performed by run_criteria_dialog
    agent_text,         \* agent_text of the last exchange of run_criteria_dialog
    criteria,           \* the criteria string returned by run_criteria_dialog
    history,            \* ContextAwareDebateAgent.history of each participant
    transcript_lines,   \* transcript_lines of execute_debate_process
    last_pro_speech,    \* local last_pro_speech
    last_con_speech,    \* local last_con_speech
    turn,               \* what the current (or last) argue call did
    judge_calls,        \* call_model calls made by judge.judge
    verdict,            \* value returned, or exception raised, by judge.judge
    probe               \* input and output of a function applied in isolation

vars == <<pc, k, exchanges, agent_text, criteria, history, transcript_lines,
          last_pro_speech, last_con_speech, turn, judge_calls, verdict, probe>>

(***************************************************************************)
(* Bounds and program constants                                            *)
(***************************************************************************)
MaxExchanges == 2       \* cap on the iterations of the unbounded criteria loop
NumRounds == 5          \* ROUND 1 .. ROUND 5 of execute_debate_process
max_retries == 3        \* ContextAwareJudge.judge
attempts == 5           \* RETRY_CONFIG of the reasoning engine (settings.py)

(***************************************************************************)
(* Python values                                                           *)
(***************************************************************************)
None == "<None>"
\* the text the engine writes in the i-th participant turn: every turn has a
\* text of its own, so that speeches of different turns can be told apart
Utterance(i) == "speech " \o ToString(i)
\* resp.text: the text x, or None when the response has no text part
TextOrNone(x) == {x, None}

PyNone == [t |-> "none"]
PyStr(form, v) == [t |-> "str", form |-> form, v |-> v]
PyInt(n) == [t |-> "int", n |-> n]
PyDict(m) == [t |-> "dict", m |-> m]
PyList(n) == [t |-> "list", n |-> n]

Plain(s) == PyStr("plain", s)       \* a non-empty text that does not start with { or [
EmptyStr == PyStr("empty", "")      \* ""
Json(v) == PyStr("json", v)         \* json.dumps(v)
BadJson == PyStr("badjson", "{")    \* starts with { but is no JSON document
Repr(v) == PyStr("repr", v)         \* str(v) of a dict, list, int or None

\* bool(v)
Truthy(v) ==
    CASE v.t = "none" -> FALSE
      [] v.t = "str" -> v.form # "empty"
      [] v.t = "int" -> v.n # 0
      [] v.t = "dict" -> DOMAIN v.m # {}
      [] v.t = "list" -> v.n # 0

\* str(v)
Str(v) == IF v.t = "str" THEN v ELSE Repr(v)

(***************************************************************************)
(* Search providers and tools (app/infrastructure/tools.py)                *)
(***************************************************************************)
ErrorRecord(msg) == [kind |-> "error", error |-> msg]       \* {"error": msg}
ResultRecord(items) == [kind |-> "result", result |-> items] \* {"result": [...]}
NoValue == [kind |-> "none"]

\* outcome of a call: a returned value or a raised exception, and the provider
\* calls (tool.execute invocations) it made, in order
Ret(v, calls) == [raised |-> FALSE, value |-> v, exc |-> "", calls |-> calls]
Raise(e, calls) == [raised |-> TRUE, value |-> NoValue, exc |-> e, calls |-> calls]

\* a tool that repeats its request as the engine's retry options would
ProviderCallWithRetries(provider, query) ==
    [provider |-> provider, query |-> query, requests |-> attempts]

\* one tool.execute call: the provider, the query, and the requests it sends
\* (a single Entrez.esearch, a single requests.get)
ProviderCall(provider, query) == [provider |-> provider, query |-> query, requests |-> 1]

\* what Entrez does: records found, no ids found, or an exception inside the try
PubMedOutcomes == {"hits", "empty", "fails"}
\* what SerpApi does: no API key configured, results, no results, a
\* RequestException, or an exception that is no RequestException
ScholarOutcomes == {"nokey", "hits", "empty", "reqfail", "crash"}

\* PubMedTool.execute: query.strip() runs before the try block
PubMedTool_execute(query, pm) ==
    LET c == <<ProviderCall("pubmed", query)>> IN
    IF query.t # "str" THEN Raise("AttributeError", c)
    ELSE CASE pm = "hits" -> Ret(ResultRecord(<<"pubmed article">>), c)
           [] pm = "empty" -> Ret(ResultRecord(<<>>), c)
           [] pm = "fails" -> Ret(ErrorRecord("Entrez failure"), c)

\* GoogleScholarTool.execute
GoogleScholarTool_execute(query, sc) ==
    LET c == <<ProviderCall("scholar", query)>> IN
    CASE sc = "nokey" -> Ret(ErrorRecord("API Key Missing"), c)
      [] sc = "hits" -> Ret(ResultRecord(<<"scholar article">>), c)
      [] sc = "empty" -> Ret(ResultRecord(<<>>), c)
      [] sc = "reqfail" -> Ret(ErrorRecord("SerpApi Error"), c)
      [] sc = "crash" -> Raise("ValueError", c)

\* the providers' behaviour during one tool dispatch: PubMed, and Google
\* Scholar on its first and on its second call
Envs == [pm : PubMedOutcomes, sc : ScholarOutcomes, sc2 : ScholarOutcomes]

(***************************************************************************)
(* Tool wrappers of app/core/agents.py                                     *)
(***************************************************************************)
google_scholar_execute(query, env) == GoogleScholarTool_execute(query, env.sc)

pubmed_execute(query, env) == PubMedTool_execute(query, env.pm)

(***************************************************************************)
(* Tool registry and dispatcher (app/core/anylize_and_recommend.py)        *)
(***************************************************************************)
DEBATE_SEARCH_TOOLS == <<"google_scholar_execute", "pubmed_execute">>

\* for t in DEBATE_SEARCH_TOOLS: TOOL_MAP[t.name] = t.func
TOOL_MAP == {DEBATE_SEARCH_TOOLS[i] : i \in 1..Len(DEBATE_SEARCH_TOOLS)}

\* the module-level loop variable t after the loop that fills TOOL_MAP
t == DEBATE_SEARCH_TOOLS[Len(DEBATE_SEARCH_TOOLS)]

\* fn(q): the registered callable applied to one positional argument
CallPositional(name, q, env) ==
    IF name = "pubmed_execute" THEN pubmed_execute(q, env)
    ELSE google_scholar_execute(q, env)

\* fn(**args): both callables take exactly one parameter, query
CallKeywords(name, m, env) ==
    IF DOMAIN m = {"query"} THEN CallPositional(name, m["query"], env)
    ELSE Raise("TypeError", <<>>)

\* one invocation of a registered callable by the dispatcher
\* (entered: the call bound its arguments and the callable's body ran)
Invocation(how, arg, out) ==
    [how |-> how, arg |-> arg, entered |-> out.calls # <<>>, raised |-> out.raised]

\* args.get(key)
Get(m, key) == IF key \in DOMAIN m THEN m[key] ELSE PyNone

\* a or b
Or(a, b) == IF Truthy(a) THEN a ELSE b

\* a lookup that takes the value of the first key that is present
QueryFieldFirstPresent(m) ==
    IF "query" \in DOMAIN m THEN m["query"]
    ELSE IF "q" \in DOMAIN m THEN m["q"]
    ELSE IF "text" \in DOMAIN m THEN m["text"]
    ELSE IF "input" \in DOMAIN m THEN m["input"]
    ELSE PyNone

\* args.get("query") or args.get("q") or args.get("text") or args.get("input")
QueryField(m) == Or(Or(Or(Get(m, "query"), Get(m, "q")), Get(m, "text")), Get(m, "input"))

\* lines 136-143: a str that starts with { or [ is parsed as JSON; a parse
\* failure keeps the raw text
CoerceArgs(raw_args) ==
    IF raw_args.t = "str" /\ raw_args.form = "json" THEN raw_args.v ELSE raw_args

\* whether json.loads raised while coercing
CoerceFailed(raw_args) ==
    raw_args.t = "str" /\ raw_args.form \in {"badjson", "repr"}

\* result of the dispatcher: what it returned or raised, the invocations of
\* the callable it made, and the provider calls those made
Dispatched(out, invocations, calls) ==
    [raised |-> out.raised, value |-> out.value, exc |-> out.exc,
     invocations |-> invocations, calls |-> calls]

\* a dispatcher that gives up after the keyword invocation
DispatchBodyWithoutFallback(fn, args, env) ==
    IF args.t = "dict" THEN
        LET q == QueryField(args.m) IN
        IF q.t # "none" THEN
            LET o == CallPositional(fn, q, env) IN
            Dispatched(o, <<Invocation("positional", q, o)>>, o.calls)
        ELSE
            LET o1 == CallKeywords(fn, args.m, env) IN
            Dispatched(o1, <<Invocation("keywords", args, o1)>>, o1.calls)
    ELSE
        LET o == CallPositional(fn, Str(args), env) IN
        Dispatched(o, <<Invocation("positional", Str(args), o)>>, o.calls)

\* lines 146-155, the body of the outer try
DispatchBody(fn, args, env) ==
    IF args.t = "dict" THEN
        LET q == QueryField(args.m) IN
        IF q.t # "none" THEN
            LET o == CallPositional(fn, q, env) IN
            Dispatched(o, <<Invocation("positional", q, o)>>, o.calls)
        ELSE
            LET o1 == CallKeywords(fn, args.m, env) IN
            IF ~o1.raised THEN
                Dispatched(o1, <<Invocation("keywords", args, o1)>>, o1.calls)
            ELSE
                LET o2 == CallPositional(fn, Str(args), [env EXCEPT !.sc = env.sc2]) IN
                Dispatched(o2, <<Invocation("keywords", args, o1),
                                 Invocation("positional", Str(args), o2)>>,
                           o1.calls \o o2.calls)
    ELSE
        LET o == CallPositional(fn, Str(args), env) IN
        Dispatched(o, <<Invocation("positional", Str(args), o)>>, o.calls)

\* a dispatcher without the outer try
CatchNothing(d) == d

\* lines 145, 156-158: except Exception as e: return {"error": str(e)}
CatchAll(d) ==
    IF d.raised
    THEN [d EXCEPT !.raised = FALSE, !.value = ErrorRecord(d.exc), !.exc = ""]
    ELSE d

\* a dispatcher that does not look the name up in TOOL_MAP
run_tool_without_lookup(tool_name, raw_args, env) ==
    CatchAll(DispatchBody(tool_name, CoerceArgs(raw_args), env))

\* run_tool_and_get_result (debate side), lines 125-158
run_tool_and_get_result(tool_name, raw_args, env) ==
    IF tool_name \notin TOOL_MAP
    THEN Dispatched(Ret(ErrorRecord("Tool not found on host."), <<>>), <<>>, <<>>)
    ELSE CatchAll(DispatchBody(tool_name, CoerceArgs(raw_args), env))

(***************************************************************************)
(* Reasoning engine boundary and adapter helpers                           *)
(***************************************************************************)
NoCall == [name |-> "", arguments |-> PyNone]
FunctionCall(name, arguments) == [name |-> name, arguments |-> arguments]

Query == Plain("desalination policy")

\* tool-call requests the engine makes during a debate
DebateCalls ==
    {FunctionCall("google_scholar_execute", PyDict([query |-> Query])),
     FunctionCall("pubmed_execute", Query),
     FunctionCall("pubmed_execute", PyDict([term |-> Query])),
     FunctionCall("web_search", PyDict([query |-> Query]))}

\* provider behaviour during a debate
DebateEnvs ==
    {[pm |-> "empty", sc |-> "nokey", sc2 |-> "nokey"],
     [pm |-> "hits", sc |-> "hits", sc2 |-> "hits"]}

\* a response object: resp.text is None when the response has no text part;
\* fc is the function_call carried by a part of the first candidate
\* str(resp) of a response object, as a sequence of tokens: braces, the word
\* function_call, keys, values, "'" for Python quoting and "text" for
\* anything else; the printed form of a response object names its fields,
\* function_call among them, and is no JSON document
ObjectRepr == <<"text", "function_call", "text">>

Response(text, fc) == [kind |-> "resp", text |-> text, fc |-> fc, str |-> ObjectRepr]
Responses(x) == {Response(y, c) : y \in TextOrNone(x), c \in {NoCall} \cup DebateCalls}

\* what one generate_content call does
AttemptOutcomes(x) == Responses(x) \cup {[kind |-> "TypeError"], [kind |-> "Exception"]}

NoResponse == [kind |-> "none"]

\* call_model: generate_content(contents), and on TypeError once more with
\* the prompt joined into one string; any other exception, and any exception
\* of the second attempt, propagates
call_model(o1, o2) ==
    IF o1.kind = "resp" THEN [raised |-> FALSE, resp |-> o1]
    ELSE IF o1.kind = "TypeError" /\ o2.kind = "resp" THEN [raised |-> FALSE, resp |-> o2]
    ELSE [raised |-> TRUE, resp |-> NoResponse]

\* the outcomes call_model can have
ModelOutcomes(x) ==
    {call_model(o1, o2) : o1 \in AttemptOutcomes(x), o2 \in AttemptOutcomes(x)}

\* the text a response carries next to its function_call in turn i
Draft(i) == "draft " \o ToString(i)

\* the responses to the first call of turn i: a speech, or a tool-call request
\* with or without a text part
FirstResponses(i) ==
    {Response(y, NoCall) : y \in TextOrNone(Utterance(i))}
        \cup {Response(y, c) : y \in TextOrNone(Draft(i)), c \in DebateCalls}

\* the outcomes of the first call_model call of turn i
FirstModelOutcomes(i) ==
    LET outcomes == FirstResponses(i) \cup {[kind |-> "TypeError"], [kind |-> "Exception"]}
    IN {call_model(o1, o2) : o1 \in outcomes, o2 \in outcomes}

\* candidates -> content -> parts -> text of the first candidate that has
\* parts (a part without text contributes str(part)), else str(resp)
CandidateText(resp) == IF resp.fc # NoCall THEN "str(part)" ELSE "str(resp)"

\* safe_get_text: line 49 tests the module global t, not txt
safe_get_text(resp) ==
    IF t # "" THEN resp.text
    ELSE IF resp.text # None THEN resp.text ELSE CandidateText(resp)

\* text_repr.index(tok, from): the first position at or after from, 0 when
\* there is none (ValueError)
IndexOf(toks, tok, from) ==
    IF \E i \in from..Len(toks) : toks[i] = tok
    THEN CHOOSE i \in from..Len(toks) :
            toks[i] = tok /\ \A j \in from..(i - 1) : toks[j] # tok
    ELSE 0

RECURSIVE MatchingClose(_, _, _)
\* the position of the "}" that closes the "{" at position i, 0 when it is
\* not closed; depth counts the braces open before position i
MatchingClose(toks, i, depth) ==
    IF i > Len(toks) THEN 0
    ELSE IF toks[i] = "{" THEN MatchingClose(toks, i + 1, depth + 1)
    ELSE IF toks[i] = "}"
         THEN IF depth = 1 THEN i ELSE MatchingClose(toks, i + 1, depth - 1)
    ELSE MatchingClose(toks, i + 1, depth)

\* json.loads(text): succeeds when the whole text is one object in JSON syntax
JsonObjectLoads(toks) ==
    /\ Len(toks) >= 2 /\ toks[1] = "{"
    /\ MatchingClose(toks, 1, 0) = Len(toks)
    /\ \A i \in 1..Len(toks) : toks[i] # "'"

RECURSIVE Member(_, _, _)
\* j.get(key) of a parsed object, looked up from the key at position i: the
\* tokens of the value, <<>> for None
Member(obj, key, i) ==
    IF i >= Len(obj) THEN <<>>
    ELSE LET last == IF obj[i + 1] = "{" THEN MatchingClose(obj, i + 1, 0) ELSE i + 1 IN
         IF obj[i] = key THEN SubSeq(obj, i + 1, last) ELSE Member(obj, key, last + 1)

\* a or b of two looked-up values
OrMember(a, b) == IF a \notin {<<>>, <<"{", "}">>} THEN a ELSE b

\* a parsed name (a string or None) and parsed arguments as Python values
NameValue(v) == IF v = <<>> THEN None ELSE v[1]
ArgsValue(v) ==
    IF v = <<>> THEN PyNone
    ELSE IF v[1] = "{" THEN PyDict(v[2] :> Plain(v[3]))
    ELSE Plain(v[1])

\* lines 105-115: the text from the first "{" after the word function_call
\* to the end is parsed as JSON and its member function_call is looked up;
\* every exception gives None
FallbackScan(text_repr) ==
    LET word == IndexOf(text_repr, "function_call", 1) IN
    IF word = 0 THEN NoCall
    ELSE LET start == IndexOf(text_repr, "{", word) IN
         IF start = 0 THEN NoCall
         ELSE LET suffix == SubSeq(text_repr, start, Len(text_repr)) IN
              IF ~JsonObjectLoads(suffix) THEN NoCall
              ELSE LET fc == OrMember(Member(suffix, "function_call", 2),
                                      Member(suffix, "functionCall", 2)) IN
                   IF fc = <<>> \/ fc[1] # "{" THEN NoCall
                   ELSE FunctionCall(NameValue(Member(fc, "name", 2)),
                                     ArgsValue(OrMember(Member(fc, "args", 2),
                                                        Member(fc, "arguments", 2))))

\* extract_function_call_from_resp: the first function_call of a candidate
\* part, else the fallback scan of str(resp)
extract_function_call_from_resp(resp) ==
    IF resp.fc # NoCall THEN resp.fc ELSE FallbackScan(resp.str)

(***************************************************************************)
(* ContextAwareDebateAgent                                                 *)
(***************************************************************************)
Speakers == {"PRO", "CON"}
Opponent(s) == IF s = "PRO" THEN "CON" ELSE "PRO"

\* self.base_instruction, built once in __init__
base_instruction(s) == IF s = "PRO" THEN "You are Agent PRO." ELSE "You are Agent CON."

\* self.history after __init__
InitialHistory(s) == <<base_instruction(s)>>

\* what base_instruction tells the participant about tools in each round
tool_use_permission(r) ==
    IF r = 1 THEN "forbidden" ELSE IF r \in {3, 5} THEN "permitted" ELSE "discouraged"

\* last_response = self.history[1] if len(self.history) > 1 else ""
LastResponse(h) == IF Len(h) > 1 THEN h[2] ELSE ""

NoFeedback == [tool_name |-> "", tool_result |-> NoValue]

\* a builder that leaves the tool-result block out of the prompt
build_call_contents_without_feedback(s, last_response, prompt, feedback) ==
    [base |-> base_instruction(s),
     previous |-> IF last_response \in {"", None} THEN "No previous response."
                  ELSE last_response,
     instruction |-> prompt,
     feedback |-> NoFeedback]

\* _build_call_contents(last_response, context_prompt)
build_call_contents(s, last_response, prompt, feedback) ==
    [base |-> base_instruction(s),
     previous |-> IF last_response \in {"", None} THEN "No previous response."
                  ELSE last_response,
     instruction |-> prompt,
     feedback |-> feedback]

(***************************************************************************)
(* execute_debate_process                                                  *)
(***************************************************************************)
\* a run that stops one run_agent call early
NumTurnsWithoutLast == 2 * NumRounds - 1
NumTurns == 2 * NumRounds

\* a run that goes back to round 1 after round 2
RoundOfRevisiting(i) == IF i = 5 THEN 1 ELSE (i + 1) \div 2

\* the i-th run_agent call of the straight-line code
RoundOf(i) == (i + 1) \div 2
\* a run in which CON opens the even rounds
SpeakerOfAlternating(i) == IF (RoundOf(i) % 2 = 1) = (i % 2 = 1) THEN "PRO" ELSE "CON"
SpeakerOf(i) == IF i % 2 = 1 THEN "PRO" ELSE "CON"

NoEmbed == "<no opponent text>"

\* r1_prompt, pro_r2_prompt .. con_r4_prompt, r5_prompt: the round, the
\* opponent round the text says it quotes, and the speech it embeds
RoundPrompt(i, lps, lcs) ==
    LET r == RoundOf(i) IN
    IF r \in {1, NumRounds}
    THEN [round |-> r, quotes_round |-> 0, embeds |-> NoEmbed]
    ELSE [round |-> r, quotes_round |-> r - 1,
          embeds |-> IF SpeakerOf(i) = "PRO" THEN lcs ELSE lps]

Header(kind) == [round |-> 0, speaker |-> kind, text |-> ""]
\* a transcript line that carries the round number only
SpeechWithoutSpeaker(r, s, text) == [round |-> r, speaker |-> "", text |-> text]
\* f"ROUND {r} {s}: {text}"
Speech(r, s, text) == [round |-> r, speaker |-> s, text |-> text]

NoTurn ==
    [round |-> 0, speaker |-> "", prompt |-> RoundPrompt(1, "", ""), contents |-> <<>>,
     calls |-> 0, fc |-> NoCall, dispatches |-> 0, invocations |-> 0,
     first_text |-> "", tool_result |-> NoValue, second_text |-> "", second_fc |-> FALSE,
     final |-> "", status |-> "none", attempts |-> 0]

NoProbe == [fn |-> "none"]

Init ==
    /\ pc = "criteria"
    /\ k = 0
    /\ exchanges = 0
    /\ agent_text = ""
    /\ criteria = ""
    /\ history = [s \in Speakers |-> <<>>]
    /\ transcript_lines = <<>>
    /\ last_pro_speech = ""
    /\ last_con_speech = ""
    /\ turn = NoTurn
    /\ judge_calls = 0
    /\ verdict = ""
    /\ probe = NoProbe

\* what the dialog agent's response stream carries: a text with the
\* sentinel, a text without it, or no text at all
EngineReplies == {"CRITERIA_FINALIZED: chosen criteria", "Which three criteria?", ""}

\* a dialog that also stops on a response without text
HasSentinelOrNoText(text) == text \in {"CRITERIA_FINALIZED: chosen criteria", "..."}

\* line 376: "CRITERIA_FINALIZED:" in agent_text
HasSentinel(text) == text = "CRITERIA_FINALIZED: chosen criteria"

\* line 377: agent_text.split("CRITERIA_FINALIZED:", 1)[1].strip()
ExtractCriteria(text) == "chosen criteria"

\* run_criteria_dialog: one engine exchange; the reply either carries the
\* CRITERIA_FINALIZED sentinel or a line of user input is read.  On return
\* the two participants and the transcript header are created.
CriteriaExchange ==
    /\ pc = "criteria"
    /\ \E reply \in EngineReplies :
         LET text == IF reply = "" THEN "..." ELSE reply IN
         /\ agent_text' = text
         /\ IF HasSentinel(text)
            THEN /\ criteria' = ExtractCriteria(text)
                 /\ history' = [s \in Speakers |-> InitialHistory(s)]
                 /\ transcript_lines' = <<Header("THESIS"), Header("CRITERIA")>>
                 /\ pc' = "run_agent"
                 /\ k' = 1
                 /\ exchanges' = 0
            ELSE /\ exchanges < MaxExchanges
                 /\ exchanges' = exchanges + 1
                 /\ UNCHANGED <<criteria, history, transcript_lines, pc, k>>
    /\ UNCHANGED <<last_pro_speech, last_con_speech, turn, judge_calls, verdict, probe>>

\* an orchestrator that starts the next turn while argue is still running
RunAgentWithoutAwait ==
    /\ pc \in {"run_agent", "call1"}
    /\ pc = "call1" => k < NumTurns
    /\ LET i == IF pc = "call1" THEN k + 1 ELSE k
           s == IF i % 2 = 1 THEN "PRO" ELSE "CON"
           p == RoundPrompt(i, last_pro_speech, last_con_speech)
       IN /\ k' = i
          /\ turn' = [NoTurn EXCEPT
                        !.round = (i + 1) \div 2, !.speaker = s, !.prompt = p,
                        !.contents = <<build_call_contents(s, LastResponse(history[s]),
                                                           p, NoFeedback)>>,
                        !.status = "running", !.attempts = 1]
    /\ pc' = "call1"
    /\ UNCHANGED <<exchanges, agent_text, criteria, history, transcript_lines,
                   last_pro_speech, last_con_speech, judge_calls, verdict, probe>>

\* run_agent(agent, prompt): the k-th turn starts; argue reads its history
\* and builds the contents of the first call
RunAgent ==
    /\ pc = "run_agent"
    /\ LET s == SpeakerOf(k)
           p == RoundPrompt(k, last_pro_speech, last_con_speech)
       IN turn' = [NoTurn EXCEPT
                     !.round = RoundOf(k), !.speaker = s, !.prompt = p,
                     !.contents = <<build_call_contents(s, LastResponse(history[s]),
                                                        p, NoFeedback)>>,
                     !.status = "running", !.attempts = 1]
    /\ pc' = "call1"
    /\ UNCHANGED <<k, exchanges, agent_text, criteria, history, transcript_lines, last_pro_speech,
                   last_con_speech, judge_calls, verdict, probe>>

\* argue line 262: self.history = [self.base_instruction, final_text]
NewHistoryAppending(s, h, final_text) == Append(h, final_text)
\* a participant that keeps its previous response in the first place
NewHistoryKeepingPrevious(s, h, final_text) == <<h[Len(h)], final_text>>
NewHistory(s, h, final_text) == <<base_instruction(s), final_text>>

\* argue lines 261-263 and the orchestrator's continuation: the history is
\* replaced, the speech is appended to the transcript and remembered as the
\* speaker's last speech (rounds 1-4), and the next turn or the judge follows
\* an orchestrator that overwrites the last transcript line
FinishRewriting(final_text) ==
    LET s == turn.speaker IN
    /\ history' = [history EXCEPT ![s] = NewHistory(s, history[s], final_text)]
    /\ transcript_lines' = [transcript_lines EXCEPT
                              ![Len(transcript_lines)] = Speech(turn.round, s, final_text)]
    /\ last_pro_speech' = IF s = "PRO" /\ turn.round < NumRounds THEN final_text
                          ELSE last_pro_speech
    /\ last_con_speech' = IF s = "CON" /\ turn.round < NumRounds THEN final_text
                          ELSE last_con_speech
    /\ k' = k + 1
    /\ pc' = IF k = NumTurns THEN "judging" ELSE "run_agent"

Finish(final_text) ==
    LET s == turn.speaker IN
    /\ history' = [history EXCEPT ![s] = NewHistory(s, history[s], final_text)]
    /\ transcript_lines' = Append(transcript_lines, Speech(turn.round, s, final_text))
    /\ last_pro_speech' = IF s = "PRO" /\ turn.round < NumRounds THEN final_text
                          ELSE last_pro_speech
    /\ last_con_speech' = IF s = "CON" /\ turn.round < NumRounds THEN final_text
                          ELSE last_con_speech
    /\ k' = k + 1
    /\ pc' = IF k = NumTurns THEN "judging" ELSE "run_agent"

\* an orchestrator that runs the turn again after an exception
AbortRetrying ==
    /\ pc' = "run_agent"
    /\ turn' = [turn EXCEPT !.calls = @ + 1, !.status = "raised"]
    /\ UNCHANGED <<k, history, transcript_lines, last_pro_speech, last_con_speech>>

\* an orchestrator that records an empty speech for the turn and goes on
AbortSkippingTurn ==
    /\ pc' = IF k = NumTurns THEN "judging" ELSE "run_agent"
    /\ k' = k + 1
    /\ turn' = [turn EXCEPT !.calls = @ + 1, !.status = "raised"]
    /\ transcript_lines' = Append(transcript_lines, Speech(turn.round, turn.speaker, ""))
    /\ UNCHANGED <<history, last_pro_speech, last_con_speech>>

\* an exception leaves argue and execute_debate_process
Abort ==
    /\ pc' = "failed"
    /\ turn' = [turn EXCEPT !.calls = @ + 1, !.status = "raised"]
    /\ UNCHANGED <<k, history, transcript_lines, last_pro_speech, last_con_speech>>

\* argue lines 229-235 and 258-259: the first call and its inspection
ModelCall1 ==
    /\ pc = "call1"
    /\ \E m \in FirstModelOutcomes(k) :
         IF m.raised THEN Abort
         ELSE LET fc == extract_function_call_from_resp(m.resp) IN
              IF fc # NoCall
              THEN /\ turn' = [turn EXCEPT !.calls = @ + 1, !.fc = fc,
                                            !.first_text = m.resp.text]
                   /\ pc' = "tool"
                   /\ UNCHANGED <<k, history, transcript_lines, last_pro_speech,
                                  last_con_speech>>
              ELSE /\ Finish(safe_get_text(m.resp))
                   /\ turn' = [turn EXCEPT !.calls = @ + 1, !.status = "returned",
                                            !.final = safe_get_text(m.resp)]
    /\ UNCHANGED <<exchanges, agent_text, criteria, judge_calls, verdict, probe>>

\* argue lines 239-254: the requested tool is run on the host and its result
\* is folded into the contents of the second call
RunTool ==
    /\ pc = "tool"
    /\ \E env \in DebateEnvs :
         LET d == run_tool_and_get_result(turn.fc.name, turn.fc.arguments, env)
             fb == [tool_name |-> turn.fc.name, tool_result |-> d.value]
         IN IF d.raised
            THEN /\ pc' = "failed"
                 /\ turn' = [turn EXCEPT !.dispatches = @ + 1, !.status = "raised"]
                 /\ UNCHANGED <<k, history, transcript_lines, last_pro_speech,
                                last_con_speech>>
            ELSE /\ turn' = [turn EXCEPT
                              !.dispatches = @ + 1,
                              !.invocations = @ + Len(d.invocations),
                              !.tool_result = d.value,
                              !.contents = Append(@, build_call_contents(
                                  turn.speaker, LastResponse(history[turn.speaker]),
                                  turn.prompt, fb))]
                 /\ pc' = "call2"
                 /\ UNCHANGED <<k, history, transcript_lines, last_pro_speech,
                                last_con_speech>>
    /\ UNCHANGED <<exchanges, agent_text, criteria, judge_calls, verdict, probe>>

\* argue lines 256-257: resp2 is not inspected for a function_call
ChainsWhenRequested(resp) == extract_function_call_from_resp(resp) # NoCall
ChainsAfterSecondCall(resp) == FALSE

\* argue lines 256-257: the second call; its text is the final output
ModelCall2 ==
    /\ pc = "call2"
    /\ \E m \in ModelOutcomes(Utterance(k)) :
         IF m.raised THEN Abort
         ELSE IF ChainsAfterSecondCall(m.resp)
         THEN /\ turn' = [turn EXCEPT !.calls = @ + 1,
                                       !.fc = extract_function_call_from_resp(m.resp)]
              /\ pc' = "tool"
              /\ UNCHANGED <<k, history, transcript_lines, last_pro_speech,
                             last_con_speech>>
         ELSE /\ Finish(safe_get_text(m.resp))
              /\ turn' = [turn EXCEPT
                            !.calls = @ + 1, !.status = "returned",
                            !.second_text = m.resp.text,
                            !.second_fc = (m.resp.fc # NoCall),
                            !.final = safe_get_text(m.resp)]
    /\ UNCHANGED <<exchanges, agent_text, criteria, judge_calls, verdict, probe>>

\* what call_model returns to the judge: a response, None, or an exception
JudgeOutcomes == {"response", "none", "raises"}

\* what leaves judge.judge instead of a value: the RuntimeError of line 321,
\* or the exception of a call_model call
JudgeRuntimeError == "<RuntimeError: no non-None response>"
EngineException == "<exception of call_model>"

\* a judge that catches the exception of a call and calls again
JudgeCallRetryingExceptions ==
    /\ pc = "judging"
    /\ judge_calls < max_retries
    /\ judge_calls' = judge_calls + 1
    /\ turn' = NoTurn
    /\ \E o \in JudgeOutcomes, x \in TextOrNone("verdict") :
         CASE o = "response" ->
                /\ verdict' = safe_get_text(Response(x, NoCall))
                /\ pc' = "done"
           [] o = "none" ->
                /\ verdict' = IF judge_calls' = max_retries THEN JudgeRuntimeError ELSE verdict
                /\ pc' = IF judge_calls' = max_retries THEN "failed" ELSE "judging"
           [] o = "raises" ->
                /\ verdict' = EngineException
                /\ pc' = IF judge_calls' = max_retries THEN "failed" ELSE "judging"
    /\ UNCHANGED <<k, exchanges, agent_text, criteria, history, transcript_lines, last_pro_speech,
                   last_con_speech, probe>>

\* ContextAwareJudge.judge: one iteration of the retry loop (the last turn is
\* over: its record is dropped)
JudgeCall ==
    /\ pc = "judging"
    /\ judge_calls < max_retries
    /\ judge_calls' = judge_calls + 1
    /\ turn' = NoTurn
    /\ \E o \in JudgeOutcomes, x \in TextOrNone("verdict") :
         CASE o = "response" ->
                /\ verdict' = safe_get_text(Response(x, NoCall))
                /\ pc' = "done"
           [] o = "none" ->
                /\ verdict' = IF judge_calls' = max_retries THEN JudgeRuntimeError ELSE verdict
                /\ pc' = IF judge_calls' = max_retries THEN "failed" ELSE "judging"
           [] o = "raises" ->
                /\ verdict' = EngineException
                /\ pc' = "failed"
    /\ UNCHANGED <<k, exchanges, agent_text, criteria, history, transcript_lines, last_pro_speech,
                   last_con_speech, probe>>

Next ==
    \/ CriteriaExchange
    \/ RunAgent
    \/ ModelCall1
    \/ RunTool
    \/ ModelCall2
    \/ JudgeCall

Spec == Init /\ [][Next]_vars

(***************************************************************************)
(* Deployed tool wrappers (thesis_advisor_deploy/app/core/agents.py)       *)
(***************************************************************************)
StrOf(v) == [kind |-> "str", of |-> v]                      \* str(resp)
ErrorText(prefix, e) == [kind |-> "str", of |-> [kind |-> "message", text |-> prefix, exc |-> e]]

\* resp.get("error") is set, or resp.get("result") is an empty list
NeedsFallback(resp) ==
    \/ resp.kind = "error"
    \/ (resp.kind = "result" /\ Len(resp.result) = 0)

deploy_google_scholar_execute(query, env) ==
    LET o == GoogleScholarTool_execute(query, env.sc) IN
    IF o.raised THEN Ret(ErrorText("Error running Google Scholar", o.exc), o.calls)
    ELSE Ret(StrOf(o.value), o.calls)

deploy_pubmed_execute(query, env) ==
    LET o == PubMedTool_execute(query, env.pm)
        s1 == GoogleScholarTool_execute(query, env.sc)
        s2 == GoogleScholarTool_execute(query, env.sc2)
    IN
    IF o.raised THEN
        \* lines 43-50
        IF s1.raised
        THEN Ret(ErrorText("Error running PubMed and Scholar fallback", s1.exc),
                 o.calls \o s1.calls)
        ELSE Ret(StrOf(s1.value), o.calls \o s1.calls)
    ELSE IF NeedsFallback(o.value) THEN
        \* lines 53-63, and 64-70 when the fallback call itself raises
        IF ~s1.raised THEN Ret(StrOf(s1.value), o.calls \o s1.calls)
        ELSE IF s2.raised
        THEN Ret(ErrorText("Error running Scholar fallback after PubMed parse error",
                           s2.exc), o.calls \o s1.calls \o s2.calls)
        ELSE Ret(StrOf(s2.value), o.calls \o s1.calls \o s2.calls)
    ELSE Ret(StrOf(o.value), o.calls)      \* line 73

(***************************************************************************)
(* Client-side dispatcher (app/function_helpers/cloud_helpers.py)          *)
(***************************************************************************)
\* run_tool_and_get_result(name, args) of cloud_helpers
cloud_run_tool_and_get_result(name, m, env) ==
    LET query == Or(Or(Get(m, "query"), Get(m, "text")), EmptyStr) IN
    IF ~Truthy(query) THEN Ret(ErrorRecord("Missing query for tool"), <<>>)
    ELSE IF name = "google_scholar_execute" THEN GoogleScholarTool_execute(query, env.sc)
    ELSE IF name = "pubmed_execute" THEN PubMedTool_execute(query, env.pm)
    ELSE Ret(ErrorRecord("Unknown tool"), <<>>)

(***************************************************************************)
(* The dispatchers and wrappers applied to every input                     *)
(***************************************************************************)
MaxKeys == 2            \* most keys of an argument mapping

ArgKeys == {"query", "q", "text", "input", "term"}
FieldValues == {Query, EmptyStr, PyNone, PyInt(7)}
Mappings ==
    UNION {[K -> FieldValues] : K \in {K \in SUBSET ArgKeys : Cardinality(K) <= MaxKeys}}

\* raw_args: a mapping, its JSON text, plain text, text that starts like JSON
\* but is none, None, a number, a list and the JSON text of a list
RawArgs ==
    {PyDict(m) : m \in Mappings} \cup {Json(PyDict(m)) : m \in Mappings}
        \cup {Query, EmptyStr, BadJson, PyNone, PyInt(7), PyList(2), Json(PyList(2))}

ToolNames == TOOL_MAP \cup {"web_search", None}

\* the second Google Scholar outcome matters only after a first call that raised
ToolEnvs == {e \in Envs : e.sc # "crash" => e.sc2 = e.sc}

Probe(fn, name, args, env) ==
    [fn |-> fn, name |-> name, args |-> args, env |-> env, done |-> FALSE,
     out |-> Dispatched(Ret(NoValue, <<>>), <<>>, <<>>)]

\* the inputs on which each function is applied
ProbeInputs(p) ==
    \/ \E n \in ToolNames, a \in RawArgs, e \in ToolEnvs :
            p = Probe("run_tool_and_get_result", n, a, e)
    \/ \E q \in FieldValues, e \in ToolEnvs :
            p = Probe("agents.pubmed_execute", "pubmed_execute", q, e)
    \/ \E q \in FieldValues, e \in ToolEnvs :
            p = Probe("deploy.pubmed_execute", "pubmed_execute", q, e)
    \/ \E n \in ToolNames \ {None}, m \in Mappings, e \in ToolEnvs :
            p = Probe("cloud_helpers.run_tool_and_get_result", n, PyDict(m), e)

InitTools ==
    /\ pc = "probe"
    /\ k = 0
    /\ exchanges = 0
    /\ agent_text = ""
    /\ criteria = ""
    /\ history = [s \in Speakers |-> <<>>]
    /\ transcript_lines = <<>>
    /\ last_pro_speech = ""
    /\ last_con_speech = ""
    /\ turn = NoTurn
    /\ judge_calls = 0
    /\ verdict = ""
    /\ ProbeInputs(probe)

Applied(out) ==
    /\ probe' = [probe EXCEPT !.done = TRUE, !.out = out]
    /\ UNCHANGED <<pc, k, exchanges, agent_text, criteria, history, transcript_lines,
                   last_pro_speech, last_con_speech, turn, judge_calls, verdict>>

\* a wrapper makes no invocation of a registered callable through a dispatcher
Direct(o) == Dispatched(o, <<>>, o.calls)

ApplyDispatch ==
    /\ pc = "probe" /\ ~probe.done /\ probe.fn = "run_tool_and_get_result"
    /\ Applied(run_tool_and_get_result(probe.name, probe.args, probe.env))

ApplyPubmedExecute ==
    /\ pc = "probe" /\ ~probe.done /\ probe.fn = "agents.pubmed_execute"
    /\ Applied(Direct(pubmed_execute(probe.args, probe.env)))

ApplyDeployPubmedExecute ==
    /\ pc = "probe" /\ ~probe.done /\ probe.fn = "deploy.pubmed_execute"
    /\ Applied(Direct(deploy_pubmed_execute(probe.args, probe.env)))

ApplyCloudDispatch ==
    /\ pc = "probe" /\ ~probe.done /\ probe.fn = "cloud_helpers.run_tool_and_get_result"
    /\ Applied(Direct(cloud_run_tool_and_get_result(probe.name, probe.args.m, probe.env)))

NextTools ==
    \/ ApplyDispatch
    \/ ApplyPubmedExecute
    \/ ApplyDeployPubmedExecute
    \/ ApplyCloudDispatch

SpecTools == InitTools /\ [][NextTools]_vars

(***************************************************************************)
(* Parsing and normalizing tool output (app/function_helpers/cloud_helpers.py) *)
(***************************************************************************)
\* an unwrapping loop that makes one pass more
MAX_ITER_AndOne == 6 + 1
MAX_ITER == 6           \* unwrap depth of normalize_tool_output
MaxWraps == 2           \* most wrappers, of mixed kinds, around a payload
MaxDepth == 8           \* most wrappers of one kind around a payload

\* a list with its elements
PySeq(items) == [t |-> "list", n |-> Len(items), items |-> items]
\* text with noise around one {...} or [...] block that holds v
Embedded(v) == PyStr("embedded", v)

\* a parser that does not decode JSON text
safe_parse_string_without_json(s) ==
    IF s.t = "str" /\ s.form \in {"repr", "embedded"} THEN s.v ELSE s

\* safe_parse_string: None, dict, list and non-strings are returned as they
\* are; a blank string gives ""; then json.loads, ast.literal_eval and the
\* first {...} or [...] block are tried; else the stripped string
safe_parse_string(s) ==
    IF s.t # "str" THEN s
    ELSE IF s.form = "empty" THEN EmptyStr
    ELSE IF s.form \in {"json", "repr", "embedded"} THEN s.v
    ELSE s

\* lines 90-92: a dict with a single key that ends with "_response"
IsResponseWrapper(v) == v.t = "dict" /\ DOMAIN v.m = {"pubmed_execute_response"}

\* lines 118-123: a string element of a list is parsed once
NormalizeElement(el) ==
    IF el.t = "str"
    THEN LET maybe == safe_parse_string(el) IN IF maybe.t # "none" THEN maybe ELSE el
    ELSE el

RECURSIVE NormalizeLoop(_, _)
\* lines 88-134: the for loop after i passes; the result is the value
\* returned and the number of passes made
NormalizeLoop(current, i) ==
    IF i >= MAX_ITER THEN [value |-> current, passes |-> i]
    ELSE IF IsResponseWrapper(current)
         THEN NormalizeLoop(current.m["pubmed_execute_response"], i + 1)
    ELSE IF current.t = "dict" /\ "result" \in DOMAIN current.m
         THEN NormalizeLoop(current.m["result"], i + 1)
    ELSE IF current.t = "dict" /\ "organic_results" \in DOMAIN current.m
         THEN NormalizeLoop(current.m["organic_results"], i + 1)
    ELSE IF current.t = "str"
         THEN LET parsed == safe_parse_string(current) IN
              IF parsed.t # "none" /\ parsed # current
              THEN NormalizeLoop(parsed, i + 1)
              ELSE [value |-> current, passes |-> i + 1]
    ELSE IF current.t = "list"
         THEN [value |-> PySeq([j \in 1..Len(current.items) |->
                                    NormalizeElement(current.items[j])]),
               passes |-> i + 1]
    ELSE IF current.t = "dict"
         THEN [value |-> PyDict([key \in DOMAIN current.m |->
                                    NormalizeLoop(current.m[key], 0).value]),
               passes |-> i + 1]
    ELSE [value |-> current, passes |-> i + 1]

normalize_tool_output(obj) == NormalizeLoop(obj, 0).value

\* json.dumps(v)
json_dumps(v) == Json(v)

\* reference mappings as the search tools build them, and lists of them
Reference(title) == PyDict([title |-> Plain(title), link |-> Plain("https://example.org")])
ReferenceLists ==
    {PySeq(<<>>), PySeq(<<Reference("a paper")>>),
     PySeq(<<Reference("a paper"), Reference("another paper")>>)}

\* payloads without a wrapper
Leaves == {PyNone, PyInt(5), Plain("free text"), EmptyStr, Reference("a paper")}
              \cup ReferenceLists

WrapKinds == {"response", "result", "organic_results", "field", "list",
              "json", "repr", "embedded"}

\* one wrapper of the given kind around x
Wrap(kind, x) ==
    CASE kind = "response" -> PyDict([pubmed_execute_response |-> x])
      [] kind = "result" -> PyDict([result |-> x])
      [] kind = "organic_results" -> PyDict([organic_results |-> x])
      [] kind = "field" -> PyDict([title |-> x])
      [] kind = "list" -> PySeq(<<x>>)
      [] kind = "json" -> json_dumps(x)
      [] kind = "repr" -> Str(x)
      [] kind = "embedded" -> IF x.t \in {"dict", "list"} THEN Embedded(x) ELSE x

RECURSIVE Nest(_, _, _)
\* n wrappers of one kind around x
Nest(kind, x, n) == IF n = 0 THEN x ELSE Wrap(kind, Nest(kind, x, n - 1))

RECURSIVE Payloads(_)
\* payloads with at most n wrappers of any kinds
Payloads(n) ==
    IF n = 0 THEN Leaves
    ELSE LET P == Payloads(n - 1) IN P \cup {Wrap(kind, x) : kind \in WrapKinds, x \in P}

(***************************************************************************)
(* Formatting references for the prompts (anylize_and_recommend.py,        *)
(* format_references_for_context)                                          *)
(***************************************************************************)
Returned(v) == [raised |-> FALSE, value |-> v, exc |-> ""]
Raised(e) == [raised |-> TRUE, value |-> PyNone, exc |-> e]

\* s[:limit]
Truncated(s, limit) == [of |-> s, limit |-> limit]

\* "No references provided."
NoReferences == [kind |-> "marker", text |-> "No references provided."]
\* the header followed by "Raw text:" and the cleaned text
RawText(cleaned) == [kind |-> "raw", text |-> cleaned]
\* the header followed by one block per entry
Formatted(entries) == [kind |-> "formatted", entries |-> entries]
\* "Error formatting references: {e}" and "Raw input (truncated): ..."
ErrorFormatting(e, x) == [kind |-> "error", e |-> e, raw |-> Truncated(Str(x), 400)]

\* art.get(key, default)
GetOr(m, key, default) == IF key \in DOMAIN m THEN m[key] ELSE default

\* a line that is written only for a truthy value
LineIf(v) == IF Truthy(v) THEN v ELSE PyNone

\* lines 66-81: the block of an article mapping
ArticleEntry(idx, art) ==
    LET content == GetOr(art, "abstract", GetOr(art, "summary", GetOr(art, "content", EmptyStr)))
    IN [kind |-> "article", idx |-> idx,
        title |-> GetOr(art, "title", GetOr(art, "name", Plain("Unknown Title"))),
        authors |-> LineIf(GetOr(art, "authors", GetOr(art, "AU", PyNone))),
        source |-> LineIf(GetOr(art, "source", GetOr(art, "journal", GetOr(art, "publisher", EmptyStr)))),
        details |-> IF Truthy(content) THEN Truncated(Str(content), 400) ELSE PyNone,
        link |-> GetOr(art, "link", GetOr(art, "url", Plain("No link")))]

\* lines 62-64: an element that is no mapping
ReferenceEntry(idx, art) == [kind |-> "reference", idx |-> idx, text |-> Truncated(Str(art), 500)]

\* lines 61-81: enumerate(articles, 1); a str is enumerated by its characters
Entries(articles) ==
    IF articles.t = "list"
    THEN [j \in 1..Len(articles.items) |->
            IF articles.items[j].t = "dict"
            THEN ArticleEntry(j, articles.items[j].m)
            ELSE ReferenceEntry(j, articles.items[j])]
    ELSE IF articles.form = "empty" THEN <<>>
    ELSE <<[kind |-> "characters", of |-> articles]>>

\* cleaned.startswith("{") or cleaned.startswith("[")
StartsWithBracket(s) ==
    \/ s.form = "badjson"
    \/ s.form \in {"json", "repr"} /\ s.v.t \in {"dict", "list"}

\* json.loads(cleaned) of a text that starts with a bracket
JsonLoads(s) == IF s.form = "json" THEN Returned(s.v) ELSE Raised("JSONDecodeError")

\* ast.literal_eval(cleaned): JSON text of a number, a string, a dict or a
\* list and the str() of a value are Python literals; null, prose and text
\* around a block are not
LiteralEval(s) ==
    IF s.form = "repr" THEN Returned(s.v)
    ELSE IF s.form = "json" /\ s.v.t # "none" THEN Returned(s.v)
    ELSE Raised("SyntaxError")

\* lines 50-57: a dict becomes a one-element list; a dict whose keys are all
\* int (of the dicts here only the empty one) becomes the list of its values
AsArticles(articles) ==
    IF articles.t = "dict"
    THEN IF DOMAIN articles.m = {} THEN PySeq(<<>>) ELSE PySeq(<<articles>>)
    ELSE articles

\* lines 29-83: the try block after the test for an empty input
FormatArticles(x) ==
    LET cleaned == Str(x)
        native == x.t \in {"list", "dict"}
        parsed == IF native THEN Returned(x)
                  ELSE IF StartsWithBracket(cleaned)
                       THEN IF JsonLoads(cleaned).raised
                            THEN LiteralEval(cleaned)
                            ELSE JsonLoads(cleaned)
                       ELSE LiteralEval(cleaned)
    IN  IF ~native /\ ~StartsWithBracket(cleaned) /\ parsed.raised
        THEN Returned(RawText(cleaned))
        ELSE IF parsed.raised THEN parsed
        ELSE LET articles == AsArticles(parsed.value) IN
             IF articles.t \in {"list", "str"}
             THEN Returned(Formatted(Entries(articles)))
             ELSE Raised("TypeError")

\* a try block that formats an empty input like any other
FormatBodyWithoutMarker(x) == FormatArticles(x)

\* lines 26-83: the try block
FormatBody(x) == IF ~Truthy(x) THEN Returned(NoReferences) ELSE FormatArticles(x)

\* a formatter without its except clause
format_references_uncaught(x) == FormatBody(x)

\* lines 25-86: except Exception as e: the error text with the truncated input
format_references_for_context(x) ==
    LET o == FormatBody(x) IN
    IF o.raised THEN Returned(ErrorFormatting(o.exc, x)) ELSE o

NormalizeProbe(fn, arg) ==
    [fn |-> fn, arg |-> arg, done |-> FALSE, out |-> [value |-> PyNone, passes |-> 0]]

NormalizeInputs(p) ==
    \/ \E x \in Payloads(MaxWraps) : p = NormalizeProbe("normalize_tool_output", x)
    \/ \E kind \in WrapKinds, x \in Leaves, n \in 1..MaxDepth :
            p = NormalizeProbe("normalize_tool_output", Nest(kind, x, n))
    \/ \E x \in Payloads(MaxWraps) : p = NormalizeProbe("main", x)
    \/ \E kind \in WrapKinds, x \in Leaves, n \in 1..MaxDepth :
            p = NormalizeProbe("main", Nest(kind, x, n))
    \/ \E x \in ReferenceLists : p = NormalizeProbe("function_response", x)
    \/ \E x \in Payloads(MaxWraps) : p = NormalizeProbe("safe_parse_string", x)
    \/ \E x \in Payloads(MaxWraps) \cup {BadJson} :
            p = NormalizeProbe("format_references_for_context", x)

InitNormalize ==
    /\ pc = "probe"
    /\ k = 0
    /\ exchanges = 0
    /\ agent_text = ""
    /\ criteria = ""
    /\ history = [s \in Speakers |-> <<>>]
    /\ transcript_lines = <<>>
    /\ last_pro_speech = ""
    /\ last_con_speech = ""
    /\ turn = NoTurn
    /\ judge_calls = 0
    /\ verdict = ""
    /\ NormalizeInputs(probe)

ApplyParse ==
    /\ pc = "probe" /\ ~probe.done /\ probe.fn = "safe_parse_string"
    /\ Applied([value |-> safe_parse_string(probe.arg), passes |-> 0])

ApplyNormalize ==
    /\ pc = "probe" /\ ~probe.done /\ probe.fn = "normalize_tool_output"
    /\ Applied(NormalizeLoop(probe.arg, 0))

\* demo_G_cloud_agent.main lines 262-263: the output is normalized twice
ApplyNormalizeTwice ==
    /\ pc = "probe" /\ ~probe.done /\ probe.fn = "main"
    /\ LET parsed == normalize_tool_output(probe.arg) IN
       Applied([value |-> normalize_tool_output(parsed), first |-> parsed])

\* a function response that arrives as JSON text, beside its native form
ApplyNormalizeEncoded ==
    /\ pc = "probe" /\ ~probe.done /\ probe.fn = "function_response"
    /\ Applied([value |-> normalize_tool_output(json_dumps(probe.arg)),
                native |-> normalize_tool_output(probe.arg)])

ApplyFormat ==
    /\ pc = "probe" /\ ~probe.done /\ probe.fn = "format_references_for_context"
    /\ Applied(format_references_for_context(probe.arg))

NextNormalize ==
    \/ ApplyParse
    \/ ApplyNormalize
    \/ ApplyNormalizeTwice
    \/ ApplyNormalizeEncoded
    \/ ApplyFormat

SpecNormalize == InitNormalize /\ [][NextNormalize]_vars

(***************************************************************************)
(* ContextAwareJudge: the scoring protocol of its instruction              *)
(***************************************************************************)
\* "Assign points (1-10) for every speech"
Points == 1..10
\* the points the engine assigns here
ScoreValues == {5, 6, 10}

RECURSIVE SumTo(_, _)
\* scores[1] + ... + scores[n]
SumTo(scores, n) == IF n = 0 THEN 0 ELSE scores[n] + SumTo(scores, n - 1)

\* a total in which the last round counts half
TOTAL_HalvingLastRound(scores) ==
    SumTo(scores, NumRounds - 1) + (scores[NumRounds] \div 2)

\* "Calculate the simple sum of scores for PRO and CON": the TOTAL line
TOTAL(scores) == SumTo(scores, NumRounds)

\* what the engine judges: one score per speech (Round r: PRO=x, CON=y),
\* the side it names as winner, and whether it finds CON's criticism
\* fundamental and unfixable (rule A)
Judgement(pro, con, winner, unfixable) ==
    [scores |-> [PRO |-> pro, CON |-> con], winner |-> winner, unfixable |-> unfixable]

\* the reply in the OUTPUT FORMAT: SCORES, TOTAL and WINNER
JudgeReply(j) ==
    [scores |-> j.scores,
     total |-> [s \in Speakers |-> TOTAL(j.scores[s])],
     winner |-> j.winner]

\* a judge that prefers PRO on the host when the totals are within one point
judge_with_tie_break(reply) ==
    LET v == safe_get_text(Response(reply, NoCall))
        d == v.total["PRO"] - v.total["CON"]
    IN IF d \in {-1, 0, 1} THEN [v EXCEPT !.winner = "PRO"] ELSE v

\* ContextAwareJudge.judge, lines 314-316: the text of the first response
\* that is not None is returned as it is
judge(reply) == safe_get_text(Response(reply, NoCall))

JudgeProbe(j) == [fn |-> "judge", arg |-> j, done |-> FALSE, out |-> [verdict |-> None]]

InitJudge ==
    /\ pc = "probe"
    /\ k = 0
    /\ exchanges = 0
    /\ agent_text = ""
    /\ criteria = ""
    /\ history = [s \in Speakers |-> <<>>]
    /\ transcript_lines = <<>>
    /\ last_pro_speech = ""
    /\ last_con_speech = ""
    /\ turn = NoTurn
    /\ judge_calls = 0
    /\ verdict = ""
    /\ \E pro \in [1..NumRounds -> ScoreValues], con \in [1..NumRounds -> ScoreValues],
          winner \in Speakers, unfixable \in BOOLEAN :
            probe = JudgeProbe(Judgement(pro, con, winner, unfixable))

ApplyJudge ==
    /\ pc = "probe" /\ ~probe.done /\ probe.fn = "judge"
    /\ Applied([verdict |-> judge(JudgeReply(probe.arg))])

NextJudge == ApplyJudge

SpecJudge == InitJudge /\ [][NextJudge]_vars

(***************************************************************************)
(* The interactive front end (demo_G_cloud_agent.py, main)                 *)
(***************************************************************************)
MaxThesisLen == 11      \* longest thesis typed, in characters
StartupMinimum == 5     \* while len(thesis_input) < 5

\* a typed line: blanks around a text of chars characters
Lines == {[blanks |-> b, chars |-> n] : b \in 0..1, n \in 0..MaxThesisLen}
\* input(...).strip(): the text without the blanks around it
strip(line) == [len |-> line.chars]

NotSubmitted == [to |-> "nothing", thesis |-> [len |-> 0]]
Submitted(to, thesis) == [to |-> to, thesis |-> thesis]

\* main at its first input(): pos is the place in main, thesis_input the
\* stripped thesis, submitted the last thesis given to a search or a debate,
\* choice the last answer at a checkpoint, debates the number of calls of
\* execute_debate_process
FrontEnd(pos, thesis_input, submitted, choice, debates) ==
    [fn |-> "demo.main", pos |-> pos, thesis_input |-> thesis_input,
     submitted |-> submitted, choice |-> choice, debates |-> debates]

InitFrontEnd ==
    /\ pc = "probe"
    /\ k = 0
    /\ exchanges = 0
    /\ agent_text = ""
    /\ criteria = ""
    /\ history = [s \in Speakers |-> <<>>]
    /\ transcript_lines = <<>>
    /\ last_pro_speech = ""
    /\ last_con_speech = ""
    /\ turn = NoTurn
    /\ judge_calls = 0
    /\ verdict = ""
    /\ probe = FrontEnd("enter", [len |-> 0], NotSubmitted, "", 0)

FrontEndStep(next) ==
    /\ probe' = next
    /\ UNCHANGED <<pc, k, exchanges, agent_text, criteria, history, transcript_lines,
                   last_pro_speech, last_con_speech, turn, judge_calls, verdict>>

\* lines 239-241: the thesis is read again while it is shorter than 5
ReadThesis ==
    /\ pc = "probe" /\ probe.fn = "demo.main" /\ probe.pos = "enter"
    /\ \E line \in Lines :
         LET thesis_input == strip(line) IN
         FrontEndStep(FrontEnd(IF thesis_input.len < StartupMinimum THEN "enter" ELSE "search",
                               thesis_input, probe.submitted, probe.choice, probe.debates))

\* lines 243-281: the thesis is sent to the search agent; an exception of
\* the search ends the loop
Search ==
    /\ pc = "probe" /\ probe.fn = "demo.main" /\ probe.pos = "search"
    /\ \E outcome \in {"results", "exception"} :
         FrontEndStep(FrontEnd(IF outcome = "exception" THEN "stopped" ELSE "checkpoint",
                               probe.thesis_input, Submitted("search", probe.thesis_input),
                               probe.choice, probe.debates))

\* a front end that comes back to the checkpoint after the debate
CheckpointWithoutBreak ==
    /\ pc = "probe" /\ probe.fn = "demo.main" /\ probe.pos = "checkpoint"
    /\ \E choice \in {"q", "c", "r", "other"}, line \in Lines :
         CASE choice = "q" ->
                FrontEndStep(FrontEnd("stopped", probe.thesis_input, probe.submitted,
                                      choice, probe.debates))
           [] choice = "c" ->
                FrontEndStep(FrontEnd(IF probe.debates < 2 THEN "checkpoint" ELSE "stopped",
                                      probe.thesis_input,
                                      Submitted("debate", probe.thesis_input),
                                      choice, probe.debates + 1))
           [] OTHER ->
                FrontEndStep(FrontEnd("search", strip(line), probe.submitted,
                                      choice, probe.debates))

\* lines 302-324: quit, continue to the debate, refine, or an invalid choice
\* that is handled like refine
Checkpoint ==
    /\ pc = "probe" /\ probe.fn = "demo.main" /\ probe.pos = "checkpoint"
    /\ \E choice \in {"q", "c", "r", "other"}, line \in Lines :
         CASE choice = "q" ->
                FrontEndStep(FrontEnd("stopped", probe.thesis_input, probe.submitted,
                                      choice, probe.debates))
           [] choice = "c" ->
                FrontEndStep(FrontEnd("stopped", probe.thesis_input,
                                      Submitted("debate", probe.thesis_input),
                                      choice, probe.debates + 1))
           [] OTHER ->
                FrontEndStep(FrontEnd("search", strip(line), probe.submitted,
                                      choice, probe.debates))

NextFrontEnd ==
    \/ ReadThesis
    \/ Search
    \/ Checkpoint

SpecFrontEnd == InitFrontEnd /\ [][NextFrontEnd]_vars

(***************************************************************************)
(* Tool-call detection on response shapes                                  *)
(***************************************************************************)
\* the tokens of arguments in JSON
ArgsTokens(a) ==
    IF a.t = "dict"
    THEN LET key == CHOOSE x \in DOMAIN a.m : TRUE IN <<"{", key, a.m[key].v, "}">>
    ELSE <<a.v>>

\* {"name": ..., "args": ...}
CallObject(c) == <<"{", "name", c.name, "args">> \o ArgsTokens(c.arguments) \o <<"}">>
\* {"function_call": {"name": ..., "args": ...}}
CallDocument(c) == <<"{", "function_call">> \o CallObject(c) \o <<"}">>
\* function_call=FunctionCall(args={'query': ...}, name=...)
CallRepr(c) == <<"function_call", "text", "{", "'", "query", "'", "}", "text">>

\* what stands before, in and after the body of a stringified response
Prefixes == {<<>>, <<"text">>, <<"function_call", "text">>}
Bodies(c) == {<<>>, CallDocument(c), CallObject(c), CallRepr(c)}
Suffixes == {<<>>, <<"text">>}

\* a response with the part call fc (or none) that prints as text_repr; embeds
\* is the call of the tool-call object that text_repr holds, if any
ExtractProbe(fc, text_repr, embeds) ==
    [fn |-> "extract_function_call_from_resp",
     arg |-> [kind |-> "resp", text |-> None, fc |-> fc, str |-> text_repr],
     embeds |-> embeds, done |-> FALSE, out |-> NoCall]

InitExtract ==
    /\ pc = "probe"
    /\ k = 0
    /\ exchanges = 0
    /\ agent_text = ""
    /\ criteria = ""
    /\ history = [s \in Speakers |-> <<>>]
    /\ transcript_lines = <<>>
    /\ last_pro_speech = ""
    /\ last_con_speech = ""
    /\ turn = NoTurn
    /\ judge_calls = 0
    /\ verdict = ""
    /\ \E fc \in {NoCall} \cup DebateCalls, c \in DebateCalls, pre \in Prefixes,
          post \in Suffixes :
         \E body \in Bodies(c) :
            probe = ExtractProbe(fc, pre \o body \o post,
                                 IF body = CallDocument(c) THEN c ELSE NoCall)

ApplyExtract ==
    /\ pc = "probe" /\ ~probe.done /\ probe.fn = "extract_function_call_from_resp"
    /\ Applied(extract_function_call_from_resp(probe.arg))

NextExtract == ApplyExtract

SpecExtract == InitExtract /\ [][NextExtract]_vars

(***************************************************************************)
(* Properties of the debate                                                *)
(***************************************************************************)
\* the speech entries of the transcript, without the two header lines
Speeches == SelectSeq(transcript_lines, LAMBDA e : e.round > 0)

\* all ten run_agent calls have returned
DebateCompleted == pc \in {"judging", "done"} \/ (pc = "failed" /\ judge_calls > 0)

\* the transcript holds the speech of speaker s in round r with text x
Spoke(r, s, x) == \E i \in 1..Len(Speeches) : Speeches[i] = Speech(r, s, x)

\* C1 (as claimed): in rounds 2, 3 and 4 the rebuttal instruction given to a
\* side embeds the opponent's statement of the preceding round N-1.
C1_EmbedsPrecedingRound ==
    (turn.status # "none" /\ turn.round \in 2..(NumRounds - 1))
        => Spoke(turn.round - 1, Opponent(turn.speaker), turn.prompt.embeds)

\* C2 (as claimed): in odd rounds PRO speaks first and CON second, in even
\* rounds CON speaks first and PRO second.
C2_OrderAlternates ==
    \A i \in 1..Len(Speeches) :
        LET first == (i = 1) \/ (Speeches[i - 1].round # Speeches[i].round) IN
        Speeches[i].speaker =
            IF (Speeches[i].round % 2 = 1) = first THEN "PRO" ELSE "CON"

\* C2 (amended): in every round 1..5 PRO speaks first and CON second.
C2_ProAlwaysFirst ==
    \A i \in 1..Len(Speeches) :
        LET first == (i = 1) \/ (Speeches[i - 1].round # Speeches[i].round) IN
        /\ Speeches[i].speaker = IF first THEN "PRO" ELSE "CON"
        /\ first => (i + 1 <= Len(Speeches) => Speeches[i + 1].round = Speeches[i].round)

\* C2 witness: an even round in which both sides have spoken.
C2_Witness ==
    /\ Len(Speeches) >= 4
    /\ Speeches[3].round = 2 /\ Speeches[3].speaker = "PRO"
    /\ Speeches[4].round = 2 /\ Speeches[4].speaker = "CON"

\* the round indices of the speech entries never decrease
RoundsNonDecreasing ==
    \A i \in 1..Len(Speeches) - 1 : Speeches[i].round <= Speeches[i + 1].round

\* C3 (as claimed): the transcript of a completed 5-round run has exactly 9
\* entries, in non-decreasing round index.
C3_NineEntries ==
    DebateCompleted => (Len(Speeches) = 9 /\ RoundsNonDecreasing)

\* C3 (amended): the transcript of a completed 5-round run has exactly 10
\* speech entries, two per round, after its two header lines (12 lines), in
\* non-decreasing round index.
C3_TenEntries ==
    /\ RoundsNonDecreasing
    /\ DebateCompleted =>
         /\ Len(Speeches) = 10
         /\ Len(transcript_lines) = 12
         /\ \A r \in 1..NumRounds :
              Cardinality({i \in 1..Len(Speeches) : Speeches[i].round = r}) = 2

\* C3 witness: a run that reached its verdict.
C3_Witness == pc = "done" /\ Len(Speeches) = 10

\* C4: the stored history of a participant never has more than 2 entries.
C4_HistoryBound == \A s \in Speakers : Len(history[s]) <= 2

\* C4 witness: both participants have argued at least twice.
C4_Witness == k >= 5 /\ \A s \in Speakers : Len(history[s]) = 2

\* C5: in one argue call there is at most one tool dispatch and at most two
\* engine calls; a second call is made exactly when the first response carried
\* a tool-call request, its text is the final output, and a tool-call request
\* of the second response is not dispatched.
C5_OneDispatchTwoCalls ==
    /\ turn.dispatches <= 1
    /\ turn.calls <= 2
    /\ turn.status = "returned" =>
         /\ turn.calls = (IF turn.fc # NoCall THEN 2 ELSE 1)
         /\ turn.dispatches = (IF turn.fc # NoCall THEN 1 ELSE 0)
         /\ turn.fc # NoCall => turn.final = turn.second_text
         /\ turn.final = history[turn.speaker][2]

\* C5 witness: a turn returned whose second response asked for a tool again.
C5_Witness ==
    turn.status = "returned" /\ turn.second_fc /\ turn.dispatches = 1 /\ turn.calls = 2

\* C6 (as claimed): no tool is dispatched in a round in which tool use is
\* forbidden (round 1).
C6_NoDispatchWhenForbidden ==
    tool_use_permission(turn.round) = "forbidden" => turn.dispatches = 0

\* C9 (as claimed): when a provider returned {"error": "API Key Missing"}, the
\* dispatcher returned that record unchanged and the turn completes with
\* non-empty text.
C9_ErrorRecordStillYieldsText ==
    (turn.status = "returned" /\ turn.dispatches = 1
        /\ turn.fc.name = "google_scholar_execute")
        => \/ turn.tool_result # ErrorRecord("API Key Missing")
           \/ turn.final \notin {None, ""}

StartsTurn == turn' # turn /\ turn'.status = "running" /\ turn'.calls = 0

\* C13: at most one participant turn or judge call is in flight: an argue call
\* starts only when no argue call is running and the entries of all earlier
\* turns are in the transcript, and the judge is called only when no argue
\* call is running.
C13_OneInFlight ==
    [][/\ StartsTurn =>
            /\ pc = "run_agent"
            /\ turn.status \in {"none", "returned"}
            /\ Len(Speeches) = k - 1
            /\ k' = k
       /\ judge_calls' > judge_calls =>
            (turn.status \in {"none", "returned"} /\ Len(Speeches) = NumTurns)]_vars

\* C13 witness: the argue call of a later turn is running.
C13_Witness == pc = "call2" /\ turn.status = "running" /\ k = 4

\* position of a run: criteria dialog, debate, judging, done (an aborted run
\* goes nowhere else)
Phase(p) ==
    CASE p = "criteria" -> 0
      [] p \in {"run_agent", "call1", "tool", "call2"} -> 1
      [] p = "judging" -> 2
      [] p = "done" -> 3
      [] OTHER -> 4

\* C14: a run goes through the criteria dialog, rounds 1 to 5 in increasing
\* order, judging and done; no round is executed twice or revisited; the judge
\* is entered once, after both round-5 turns, with all ten speeches.
C14_PhasesInOrder ==
    /\ [](/\ RoundsNonDecreasing
          /\ \A r \in 1..NumRounds, s \in Speakers :
                Cardinality({i \in 1..Len(Speeches) :
                                Speeches[i].round = r /\ Speeches[i].speaker = s}) <= 1
          /\ pc = "criteria" => (Len(transcript_lines) = 0 /\ judge_calls = 0)
          /\ (pc \in {"judging", "done"} \/ judge_calls > 0) =>
                /\ Len(Speeches) = NumTurns
                /\ Speeches[NumTurns - 1].round = NumRounds
                /\ Speeches[NumTurns].round = NumRounds
          /\ pc = "done" => judge_calls \in 1..max_retries)
    /\ [][/\ Phase(pc') >= Phase(pc)
          /\ k' >= k
          /\ (pc # "judging" /\ pc' = "judging") => (judge_calls = 0 /\ k = NumTurns)]_vars

\* C14 witness: a verdict given by the judge's second engine call.
C14_Witness == pc = "done" /\ judge_calls = 2

\* s is an initial segment of u
IsPrefix(s, u) == Len(s) <= Len(u) /\ \A i \in 1..Len(s) : s[i] = u[i]

\* C15: the transcript is append-only, and while a turn's engine calls run the
\* transcript holds the entries of all earlier turns, each tagged with its
\* round and speaker.
C15_AppendOnly ==
    /\ [][IsPrefix(transcript_lines, transcript_lines')]_vars
    /\ [](pc \in {"call1", "tool", "call2"} =>
            /\ Len(Speeches) = k - 1
            /\ \A i \in 1..Len(Speeches) :
                  /\ Speeches[i].round = (i + 1) \div 2
                  /\ Speeches[i].speaker = (IF i % 2 = 1 THEN "PRO" ELSE "CON"))

\* C15 witness: the fourth turn's first engine call runs after three entries.
C15_Witness == pc = "call1" /\ k = 4 /\ Len(Speeches) = 3

\* C16: the criteria dialog ends only on a response that carries the sentinel;
\* on any other response, an empty one included, it reads a line of user
\* input and makes another exchange; no debate turn runs before it ends.
C16_FinalizedOnlySentinel ==
    /\ [](/\ pc = "criteria" =>
                /\ agent_text \in {"", "Which three criteria?", "..."}
                /\ k = 0 /\ turn = NoTurn /\ Len(transcript_lines) = 0
          /\ pc \notin {"criteria", "probe"} =>
                /\ agent_text = "CRITERIA_FINALIZED: chosen criteria"
                /\ criteria = "chosen criteria")
    /\ [][pc = "criteria" =>
            IF agent_text' = "CRITERIA_FINALIZED: chosen criteria"
            THEN pc' = "run_agent"
            ELSE pc' = "criteria" /\ exchanges' = exchanges + 1]_vars

\* C16 witness: the dialog went on after an empty response, as many times as
\* the model's cap allows.
C16_Witness == pc = "criteria" /\ agent_text = "..." /\ exchanges = MaxExchanges

\* C17 (as claimed): the dialog is not finalized before the user has answered
\* the selection question and the custom-criterion question.
C17_FinalizedAfterSelection ==
    [][(pc = "criteria" /\ pc' # "criteria") => exchanges >= 2]_vars

\* C27: after every completed argue call that returned T the participant's
\* history is exactly [base_instruction, T]; once constructed, a history
\* changes only in that way, the other participant's history is left alone,
\* and the first entry is always the instruction built at construction.
C27_HistoryReplaced ==
    /\ [](/\ \A s \in Speakers :
                Len(history[s]) >= 1 => history[s][1] = base_instruction(s)
          /\ turn.status = "returned" =>
                history[turn.speaker] = <<base_instruction(turn.speaker), turn.final>>)
    /\ [][\A s \in Speakers :
            (history[s] # <<>> /\ history'[s] # history[s]) =>
                /\ turn'.status = "returned" /\ turn'.speaker = s
                /\ history'[s] = <<base_instruction(s), turn'.final>>
                /\ history'[Opponent(s)] = history[Opponent(s)]]_vars

\* C27 witness: a participant returned from its second turn, so that an older
\* response was discarded.
C27_Witness ==
    /\ turn.status = "returned" /\ turn.round = 2 /\ turn.speaker = "CON"
    /\ turn.final = Utterance(4)
    /\ history["CON"] = <<base_instruction("CON"), Utterance(4)>>

\* C28 (as claimed): safe_get_text never returns None: the final text of a
\* returned turn and the verdict of a finished run are strings.
C28_AlwaysReturnsString ==
    /\ turn.status = "returned" => turn.final # None
    /\ pc = "done" => verdict # None

\* the judge has been handed "\n".join(transcript_lines)
HandedToJudge == judge_calls > 0

\* the indices of the transcript lines tagged with round r and speaker s
EntriesOf(r, s) ==
    {i \in 1..Len(transcript_lines) :
        transcript_lines[i].round = r /\ transcript_lines[i].speaker = s}

\* C32: the transcript handed to the Judge is the thesis and the criteria
\* header line followed by exactly one PRO and exactly one CON speech entry
\* for each round 1 to 5 (10 speech entries), each tagged with its round
\* number and its speaker.
C32_TranscriptHandedToJudge ==
    HandedToJudge =>
        /\ Len(transcript_lines) = 2 + (2 * NumRounds)
        /\ transcript_lines[1] = Header("THESIS")
        /\ transcript_lines[2] = Header("CRITERIA")
        /\ \A i \in 3..Len(transcript_lines) :
                /\ transcript_lines[i].round \in 1..NumRounds
                /\ transcript_lines[i].speaker \in Speakers
        /\ \A r \in 1..NumRounds : \A s \in Speakers :
                Cardinality(EntriesOf(r, s)) = 1

\* C32 witness: the judge has answered on a transcript whose last line is the
\* closing statement of CON.
C32_Witness ==
    /\ pc = "done" /\ HandedToJudge
    /\ transcript_lines[Len(transcript_lines)].round = NumRounds
    /\ transcript_lines[Len(transcript_lines)].speaker = "CON"

\* a step in which a reasoning-engine call of the running turn raises
EngineCallRaises ==
    /\ pc \in {"call1", "call2"}
    /\ turn'.calls = turn.calls + 1
    /\ turn'.status = "raised"

\* C33: when a reasoning-engine call of a participant's turn raises, in the
\* first call or in the second call after a tool, the histories of both
\* participants are left as they were, no entry is appended to the
\* transcript, and nothing follows: no later turn is run and the judge is
\* never called.
C33_RaisedCallAbortsRun ==
    /\ [](turn.status = "raised" => (pc = "failed" /\ judge_calls = 0))
    /\ [][/\ EngineCallRaises =>
                /\ history' = history
                /\ transcript_lines' = transcript_lines
                /\ Len(Speeches) = k - 1
                /\ k' = k /\ judge_calls' = 0
          /\ turn.status # "raised"]_vars

\* C33 witness: the second call of a turn, made after a tool was run, raised
\* in the third round.
C33_Witness ==
    /\ pc = "failed" /\ turn.status = "raised"
    /\ turn.calls = 2 /\ turn.dispatches = 1
    /\ turn.round = 3 /\ Len(Speeches) = k - 1

\* the texts judge.judge can return
JudgeTexts == {safe_get_text(Response(x, NoCall)) : x \in TextOrNone("verdict")}

\* C34: judge.judge makes at most 3 reasoning-engine calls: the first
\* response that is not None ends it with the text of that response and no
\* further call, a None response is followed by the next call until the
\* third None, after which RuntimeError is raised, and an exception of a call
\* leaves judge.judge at once, without another call.
C34_JudgeRetries ==
    /\ [](/\ judge_calls <= max_retries
          /\ verdict = JudgeRuntimeError => (judge_calls = max_retries /\ pc = "failed")
          /\ verdict = EngineException => pc = "failed"
          /\ pc = "done" => verdict \in JudgeTexts)
    /\ [][/\ judge_calls' # judge_calls =>
                /\ judge_calls' = judge_calls + 1
                /\ pc = "judging" /\ verdict = ""
                /\ pc' = "judging" <=> (verdict' = "" /\ judge_calls' < max_retries)
                /\ pc' = "done" <=> verdict' \in JudgeTexts
                /\ pc' = "failed" <=> verdict' \in {JudgeRuntimeError, EngineException}
          /\ pc \in {"done", "failed"} => judge_calls' = judge_calls]_vars

\* C34 witness: the third call answered None as the first two did, and
\* RuntimeError was raised.
C34_Witness ==
    /\ pc = "failed" /\ judge_calls = max_retries /\ verdict = JudgeRuntimeError

\* the running turn asked for a tool that TOOL_MAP does not hold
RequestedUnregistered == turn.fc # NoCall /\ turn.fc.name \notin TOOL_MAP

\* {"error": "Tool '<name>' not found on host."}
NotFoundRecord == ErrorRecord("Tool not found on host.")

\* C35: dispatching a tool name that is not in the registry returns an
\* ErrorRecord and invokes no tool callable, and the turn goes on to its
\* second reasoning-engine call, the only one, whose prompt holds that
\* ErrorRecord in the tool-result block.
C35_UnregisteredToolFoldedIn ==
    /\ [](RequestedUnregistered =>
            /\ turn.invocations = 0
            /\ turn.dispatches <= 1 /\ turn.calls <= 2
            /\ turn.dispatches = 1 =>
                 /\ turn.tool_result = NotFoundRecord
                 /\ Len(turn.contents) = 2
                 /\ turn.contents[2].feedback =
                        [tool_name |-> turn.fc.name, tool_result |-> NotFoundRecord]
            /\ turn.calls = 2 => turn.dispatches = 1)
    /\ [][(RequestedUnregistered /\ pc = "tool") =>
              (pc' = "call2" /\ turn'.dispatches = 1 /\ turn'.calls = 1)]_vars

\* C35 witness: a turn that asked for web_search returned the text of its
\* second call.
C35_Witness ==
    /\ RequestedUnregistered /\ turn.fc.name = "web_search"
    /\ turn.status = "returned" /\ turn.calls = 2
    /\ turn.tool_result = NotFoundRecord

\* the turn on record ran a tool
RanTool == turn.dispatches = 1 /\ Len(turn.contents) = 2

\* history_text of _build_call_contents for the stored history h
PreviousOf(h) ==
    IF LastResponse(h) \in {"", None} THEN "No previous response." ELSE LastResponse(h)

\* C36: a tool result is used only in the second reasoning-engine call of
\* the turn that obtained it: the first prompt of every turn has no
\* tool-result block; the second prompt has the base instruction, the
\* pre-turn last output and the round instruction of the first prompt, and
\* the delimited block with the tool's name and result; after the turn the
\* participant's history is its base instruction and the text of the second
\* response and nothing else: no tool result, and not the text of the first
\* response.
C36_ToolResultOnlyInSecondCall ==
    /\ Len(turn.contents) >= 1 => turn.contents[1].feedback = NoFeedback
    /\ (turn.status = "running" /\ Len(turn.contents) >= 1) =>
            /\ turn.contents[1].previous = PreviousOf(history[turn.speaker])
            /\ turn.contents[1].instruction = turn.prompt
    /\ RanTool =>
            /\ turn.contents[2].base = turn.contents[1].base
            /\ turn.contents[2].previous = turn.contents[1].previous
            /\ turn.contents[2].instruction = turn.contents[1].instruction
            /\ turn.contents[2].feedback =
                    [tool_name |-> turn.fc.name, tool_result |-> turn.tool_result]
    /\ (RanTool /\ turn.status = "returned") =>
            LET h == history[turn.speaker] IN
            /\ h = <<base_instruction(turn.speaker), turn.final>>
            /\ turn.final \in {turn.second_text, None}
            /\ \A i \in 1..Len(h) :
                    turn.first_text # None => h[i] # turn.first_text

\* C36 witness: a turn whose first response carried a text next to its
\* tool-call request, whose tool returned results, and whose second response
\* gave the speech.
C36_Witness ==
    /\ RanTool /\ turn.status = "returned"
    /\ turn.first_text = Draft(k - 1)
    /\ turn.tool_result.kind = "result"
    /\ turn.final = Utterance(k - 1)

(***************************************************************************)
(* Properties of the dispatchers and wrappers                              *)
(***************************************************************************)
\* the dispatcher of the debate was applied, on a registered tool name
DispatchedRegistered ==
    probe.done /\ probe.fn = "run_tool_and_get_result" /\ probe.name \in TOOL_MAP

\* how often the body of the registered callable ran
Executions(invs) == Cardinality({i \in DOMAIN invs : invs[i].entered})

\* str(e) of the exceptions a registered callable raises
ExceptionNames == {"AttributeError", "TypeError", "ValueError"}

\* C7 (as claimed): a dispatch that names a registered tool executes the
\* callable exactly once, whatever the shape of the arguments.
C7_ExecutedExactlyOnce ==
    DispatchedRegistered => Executions(probe.out.invocations) = 1

\* C7 (amended): the callable is invoked once, positionally, when the
\* arguments are no mapping or a mapping whose query/q/text/input lookup is
\* not None; otherwise it is invoked with keywords and, exactly when that
\* raises, once more with the string form of the mapping: at most two
\* invocations and at most two executions, the last invocation always
\* executing.
C7_InvocationsByShape ==
    DispatchedRegistered =>
        LET args == CoerceArgs(probe.args)
            invs == probe.out.invocations
            n == Len(invs)
            hasQuery == args.t = "dict" /\ QueryField(args.m).t # "none"
        IN
        /\ n \in {1, 2}
        /\ Executions(invs) \in {1, 2}
        /\ invs[n].entered
        /\ (args.t # "dict" \/ hasQuery) =>
              (n = 1 /\ invs[1].how = "positional"
                /\ invs[1].arg = (IF hasQuery THEN QueryField(args.m) ELSE Str(args)))
        /\ (args.t = "dict" /\ ~hasQuery) =>
              (invs[1].how = "keywords" /\ (n = 2 <=> invs[1].raised))
        /\ n = 2 => (invs[2].how = "positional" /\ invs[2].arg = Str(args))

\* C7 witness: a mapping without a query-like value made the callable run twice.
C7_Witness ==
    /\ DispatchedRegistered
    /\ Len(probe.out.invocations) = 2
    /\ Executions(probe.out.invocations) = 2

\* C8 (as claimed): the dispatcher never raises, and any exception during
\* argument coercion or tool invocation is returned as an ErrorRecord.
C8_ExceptionsBecomeErrorRecords ==
    (probe.done /\ probe.fn = "run_tool_and_get_result") =>
        /\ ~probe.out.raised
        /\ (\/ CoerceFailed(probe.args)
            \/ \E i \in DOMAIN probe.out.invocations : probe.out.invocations[i].raised)
              => probe.out.value.kind = "error"

\* C8 (amended): the dispatcher never raises; an exception of JSON coercion is
\* swallowed and the raw text is passed to the callable; an exception of the
\* keyword invocation is swallowed and the positional invocation is tried;
\* only an exception of the last invocation is returned as {error: message}.
C8_LastExceptionBecomesErrorRecord ==
    (probe.done /\ probe.fn = "run_tool_and_get_result") =>
        LET invs == probe.out.invocations IN
        /\ ~probe.out.raised
        /\ probe.name \notin TOOL_MAP =>
              (invs = <<>> /\ probe.out.value = ErrorRecord("Tool not found on host."))
        /\ probe.name \in TOOL_MAP =>
              /\ invs[Len(invs)].raised <=>
                    (\E e \in ExceptionNames : probe.out.value = ErrorRecord(e))
              /\ CoerceFailed(probe.args) =>
                    (invs[1].how = "positional" /\ invs[1].arg = probe.args)

\* C8 witness: the callable raised and the dispatcher returned an ErrorRecord.
C8_Witness ==
    /\ DispatchedRegistered
    /\ probe.out.invocations[Len(probe.out.invocations)].raised
    /\ ~probe.out.raised
    /\ probe.out.value = ErrorRecord("AttributeError")

\* C10 (as claimed): whenever PubMed returns an empty result list for a query,
\* Google Scholar is called with the same query before a result is returned.
C10_EmptyPubMedFallsBack ==
    probe.done =>
        \A i \in DOMAIN probe.out.calls :
            LET c == probe.out.calls[i] IN
            (c.provider = "pubmed" /\ c.query.t = "str" /\ probe.env.pm = "empty") =>
                \E j \in DOMAIN probe.out.calls :
                    /\ j > i
                    /\ probe.out.calls[j] = ProviderCall("scholar", c.query)

\* a provider call that met a retryable failure: an HTTP error status such as
\* 429 or 503 raised by raise_for_status, or an exception inside PubMed's try
FailedRetryably(c, env) ==
    \/ (c.provider = "scholar" /\ env.sc = "reqfail")
    \/ (c.provider = "pubmed" /\ c.query.t = "str" /\ env.pm = "fails")

\* the dispatcher made one provider call and it met a retryable failure
DispatchFailedRetryably ==
    /\ DispatchedRegistered
    /\ Len(probe.out.calls) = 1
    /\ FailedRetryably(probe.out.calls[1], probe.env)

Aliases == <<"query", "q", "text", "input">>

\* the mapping the dispatcher works on, when the arguments are or parse to one
DispatchedMapping ==
    DispatchedRegistered /\ CoerceArgs(probe.args).t = "dict"

\* C30 (as claimed): the query passed to the tool is the value of the first
\* key present among query, q, text, input; only when none of these keys is
\* present is the mapping expanded as keyword arguments.
C30_FirstPresentKey ==
    DispatchedMapping =>
        LET m == CoerceArgs(probe.args).m
            inv == probe.out.invocations[1]
            present == {i \in 1..4 : Aliases[i] \in DOMAIN m}
        IN IF present # {}
           THEN /\ inv.how = "positional"
                /\ inv.arg = m[Aliases[CHOOSE i \in present : \A j \in present : i <= j]]
           ELSE inv.how = "keywords"

\* C30 (amended): the query passed to the tool is the first truthy value
\* among the keys query, q, text, input in that order (a missing key and an
\* empty or otherwise falsy value are skipped alike); when no value is truthy
\* the value of input is taken, and only when that is None or missing is the
\* mapping expanded as keyword arguments.
C30_FirstTruthyValue ==
    DispatchedMapping =>
        LET m == CoerceArgs(probe.args).m
            inv == probe.out.invocations[1]
            truthy == {i \in 1..4 : Aliases[i] \in DOMAIN m /\ Truthy(m[Aliases[i]])}
            q == IF truthy # {}
                 THEN m[Aliases[CHOOSE i \in truthy : \A j \in truthy : i <= j]]
                 ELSE IF "input" \in DOMAIN m THEN m["input"] ELSE PyNone
        IN IF q # PyNone
           THEN /\ Len(probe.out.invocations) = 1
                /\ inv.how = "positional" /\ inv.arg = q
           ELSE inv.how = "keywords" /\ inv.arg = CoerceArgs(probe.args)

\* C30 witness: a mapping whose query is empty and whose q is not was
\* dispatched with the value of q.
C30_Witness ==
    /\ DispatchedMapping
    /\ CoerceArgs(probe.args).m = [query |-> EmptyStr, q |-> Query]
    /\ probe.out.invocations[1].how = "positional"
    /\ probe.out.invocations[1].arg = Query

\* the positions of the calls made to a provider
CallsTo(provider) ==
    {i \in DOMAIN probe.out.calls : probe.out.calls[i].provider = provider}

\* C37: one invocation of the deployed pubmed_execute wrapper makes at most
\* one PubMed call and at most one Google Scholar call, never raises and
\* returns a string; Google Scholar is called only when the PubMed call
\* raised, returned an error or returned an empty result list.
C37_OneCallPerProvider ==
    (probe.done /\ probe.fn = "deploy.pubmed_execute") =>
        LET o == PubMedTool_execute(probe.args, probe.env.pm) IN
        /\ Cardinality(CallsTo("pubmed")) <= 1
        /\ Cardinality(CallsTo("scholar")) <= 1
        /\ ~probe.out.raised
        /\ probe.out.value.kind = "str"
        /\ CallsTo("scholar") # {} => (o.raised \/ NeedsFallback(o.value))

(***************************************************************************)
(* Properties of the normalizer                                            *)
(***************************************************************************)
\* C18 (as claimed): normalizing a normalized payload changes nothing.
C18_Idempotent ==
    (probe.done /\ probe.fn = "main") => probe.out.value = probe.out.first

C20_BoundedPasses ==
    (probe.done /\ probe.fn = "normalize_tool_output") =>
        /\ probe.out.passes \in 1..6
        /\ probe.arg \in {PyNone, PyInt(5), Plain("free text")} =>
              (probe.out.passes = 1 /\ probe.out.value = probe.arg)
        /\ \A x \in {PyInt(5), Plain("free text")}, n \in 7..MaxDepth :
              probe.arg = Nest("result", x, n) =>
                  (probe.out.passes = 6 /\ probe.out.value = Nest("result", x, n - 6))

\* C20 witness: a payload inside seven result wrappers.
C20_Witness ==
    /\ probe.done /\ probe.fn = "normalize_tool_output"
    /\ probe.arg = Nest("result", PyInt(5), 7)
    /\ probe.out = [value |-> PyDict([result |-> PyInt(5)]), passes |-> 6]

\* the types of the Python values of the model
PyTypes == {"none", "str", "int", "dict", "list"}

\* C21: the formatter of the references never raises: when its body fails it
\* returns the error text that holds the input, stringified and truncated
\* to 400 characters; normalize_tool_output returns a value for every payload.
C21_NeverRaises ==
    /\ (probe.fn = "format_references_for_context" /\ probe.done) =>
            /\ ~probe.out.raised
            /\ FormatBody(probe.arg).raised =>
                    probe.out.value = ErrorFormatting(FormatBody(probe.arg).exc, probe.arg)
    /\ (probe.fn = "normalize_tool_output" /\ probe.done) =>
            probe.out.value.t \in PyTypes

\* C21 witness: the body failed on a text that starts with a bracket and
\* cannot be parsed, and the error text was returned.
C21_Witness ==
    /\ probe.fn = "format_references_for_context" /\ probe.done
    /\ probe.arg = BadJson
    /\ probe.out.value.kind = "error"

Judged == probe.fn = "judge" /\ probe.done

\* the totals of the verdict are within one point of each other
CloseTotals ==
    probe.out.verdict.total["PRO"] - probe.out.verdict.total["CON"] \in {-1, 0, 1}

\* C24 (as claimed): when the two aggregates differ by at most 1 point and
\* no unfixable flaw is flagged for CON, the winner is PRO.
C24_TieBreakPrefersPro ==
    (Judged /\ CloseTotals /\ ~probe.arg.unfixable) => probe.out.verdict.winner = "PRO"

\* C24 (amended): the judge applies no tie-break: the verdict returned is
\* the engine's reply unchanged, so the winner is the side the reply names,
\* PRO or CON, also when the totals differ by at most 1 point.
C24_WinnerAsNamed ==
    Judged =>
        /\ probe.out.verdict = JudgeReply(probe.arg)
        /\ probe.out.verdict.winner = probe.arg.winner
        /\ probe.out.verdict.winner \in Speakers

\* C24 witness: PRO=27, CON=26, no unfixable flaw, and the verdict names CON.
C24_Witness ==
    /\ Judged /\ ~probe.arg.unfixable
    /\ probe.out.verdict.total = [PRO |-> 27, CON |-> 26]
    /\ probe.out.verdict.winner = "CON"

C26_SubmittedHasMinimumLength ==
    (probe.fn = "demo.main" /\ probe.submitted.to # "nothing") =>
        probe.submitted.thesis.len >= StartupMinimum

\* C31: the debate is launched only on continue at a checkpoint, at most
\* once per run, and the run ends after it; quit ends the run without a
\* debate; refine and an unrecognized choice read a new thesis and lead to a
\* new search, which is followed by another checkpoint unless the search
\* raises, which ends the run without a debate; nothing happens after the run
\* has ended.
C31_CheckpointChoices ==
    /\ [](probe.fn = "demo.main" =>
            /\ probe.debates <= 1
            /\ probe.debates = 1 => (probe.pos = "stopped" /\ probe.choice = "c")
            /\ probe.submitted.to = "debate" <=> probe.debates = 1)
    /\ [][probe.fn = "demo.main" =>
            /\ probe.pos # "stopped"
            /\ probe'.debates # probe.debates =>
                    (probe.pos = "checkpoint" /\ probe'.choice = "c")
            /\ probe.pos = "checkpoint" =>
                    CASE probe'.choice = "c" ->
                            /\ probe'.pos = "stopped"
                            /\ probe'.submitted = Submitted("debate", probe.thesis_input)
                      [] probe'.choice = "q" ->
                            /\ probe'.pos = "stopped"
                            /\ probe'.debates = 0 /\ probe'.submitted = probe.submitted
                      [] OTHER ->
                            /\ probe'.pos = "search"
                            /\ probe'.debates = 0 /\ probe'.submitted = probe.submitted
            /\ probe.pos = "search" =>
                    /\ probe'.submitted = Submitted("search", probe.thesis_input)
                    /\ probe'.pos \in {"checkpoint", "stopped"}
                    /\ probe'.choice = probe.choice]_vars

\* C31 as stated: the same, and every new search is followed by another
\* checkpoint.
C31_SearchReachesCheckpoint ==
    /\ C31_CheckpointChoices
    /\ [][(probe.fn = "demo.main" /\ probe.pos = "search") =>
              probe'.pos = "checkpoint"]_vars

\* C31 witness: after a refine that read an empty thesis and a new search,
\* continue was chosen at the next checkpoint and the run ended with one debate.
C31_Witness ==
    /\ probe.fn = "demo.main" /\ probe.pos = "stopped"
    /\ probe.debates = 1 /\ probe.choice = "c"
    /\ probe.submitted = Submitted("debate", [len |-> 0])

(***************************************************************************)
(* Properties of the tool-call detection                                   *)
(***************************************************************************)
\* C29 (as claimed): the function call of a part is returned first; when no
\* part carries one and the stringified response embeds a tool-call object,
\* the fallback scan returns that call; otherwise the result is None.
C29_FallbackFindsEmbeddedCall ==
    (probe.fn = "extract_function_call_from_resp" /\ probe.done) =>
        probe.out = IF probe.arg.fc # NoCall THEN probe.arg.fc
                    ELSE IF probe.embeds # NoCall THEN probe.embeds
                    ELSE NoCall

====
